---------------------------- MODULE Spec2Model ----------------------------
(***************************************************************************)
(* Morphological segmentation, part-of-speech disambiguation, tokenizing  *)
(* and orthography conversion of nahuatl_tools.                            *)
(*                                                                         *)
(* A Python str is a sequence of one-character strings: "ni" is           *)
(* <<"n", "i">>, the empty str is <<>>.  A Python list of str is a        *)
(* sequence of such sequences.  Python indices are 0-based, TLA+          *)
(* sequences 1-based: s[i] in Python is s[i+1] here.                       *)
(***************************************************************************)
EXTENDS Integers, Sequences, FiniteSets, TLC

VARIABLES
    pc,         \* position of the running call
    word,       \* the str handed to parse_verb / parse_noun / is_verb_rb / Verb
    verb_list,  \* is_verb_rb's verb lexicon (a set of str)
    non_verb_list, \* is_verb_rb's non-verb lexicon (a set of str)
    ret,        \* what the call returned (or raised)
    args,       \* tokenize_text's arguments
    text,       \* tokenize_text's text, held as the list text.split() gives
    words,      \* tokenize_text's words
    classes,    \* tokenize_text's classes
    parsed_words, \* tokenize_text's parsed_words
    calls       \* per surface form, how often tokenize_text called is_verb_rb
                \* and how often it called parse_verb or parse_noun

vars == <<pc, word, verb_list, non_verb_list, ret, args, text, words, classes, parsed_words, calls>>

tokvars == <<args, text, words, classes, parsed_words, calls>>
wordvars == <<word, verb_list, non_verb_list>>

\* Python's None.  No str equals it: a str holds one-character strings only.
None == <<"None">>

---------------------------------------------------------------------------
(* str helpers *)

startswith(w, p) == Len(p) <= Len(w) /\ SubSeq(w, 1, Len(p)) = p

endswith(w, s) == Len(s) <= Len(w) /\ SubSeq(w, Len(w) - Len(s) + 1, Len(w)) = s

\* w[n:]
DropFirst(w, n) == SubSeq(w, n + 1, Len(w))

\* w[:n] for 0 <= n
TakeFirst(w, n) == SubSeq(w, 1, n)

RECURSIVE Concat(_)
\* ''.join(list)
Concat(list) == IF list = <<>> THEN <<>> ELSE Head(list) \o Concat(Tail(list))

\* x in list
InList(x, list) == \E i \in 1..Len(list) : list[i] = x

\* list.index(x), 0-based; the caller guarantees x in list
index(list, x) == (CHOOSE i \in 1..Len(list) : list[i] = x /\ \A j \in 1..(i-1) : list[j] # x) - 1

RECURSIVE Reverse(_)
\* list[::-1]
Reverse(list) == IF list = <<>> THEN <<>> ELSE Reverse(Tail(list)) \o <<Head(list)>>

---------------------------------------------------------------------------
(* parse.py: the affix inventories *)

VOWELS == {"a", "e", "i", "o", "u"}

NEGATION_PREFIXES_V == << <<"a","x">> >>
TENSE_PREFIXES_V == << <<"o">> >>
SUBJECT_PREFIXES_V == << <<"n","i">>, <<"t","i">>, <<"a","n">>, <<"x","i">> >>
REFLEXIVE_PREFIXES_V == << <<"n","o">>, <<"m","o">> >>
\* OBJECT_PREFIXES_V without the one-letter prefix 'k'
OBJECT_PREFIXES_V_without_k ==
    << <<"n","e","c">>, <<"m","i","z">>, <<"t","e","c">>, <<"k","i","n">>,
       <<"m","e","c">>, <<"k","i">>, <<"j">>, <<"t","e">>, <<"L","a">> >>

OBJECT_PREFIXES_V == << <<"n","e","c">>, <<"m","i","z">>, <<"t","e","c">>, <<"k","i","n">>,
                        <<"m","e","c">>, <<"k","i">>, <<"k">>, <<"j">>, <<"t","e">>, <<"L","a">> >>
COMMON_PREFIXES_V == << <<"n","e","l">> >>
DIRECTIONAL_PREFIXES_V == << <<"w","a","l">>, <<"o","n">> >>

DIRECTIONAL_SUFFIXES_V == << <<"t","i">>, <<"t","o">>, <<"k","i">>, <<"k","o">> >>
NUMBER_SUFFIXES_V == << <<"j">> >>
TENSE_SUFFIXES_V == << <<"s","e">>, <<"s">>, <<"y","a","y","a">>, <<"k","t","o","k">>,
                       <<"j","t","o","k">>, <<"t","o","y","a">>, <<"k">>, <<"k","e">> >>
CAUSATIVE_SUFFIXES_V == << <<"l","t","i","a">>, <<"l","t","i">>, <<"t","i">> >>

GENITIVE_PREFIXES_N == << <<"n","o">>, <<"m","o">>, <<"t","o">>, <<"i","n","i","n">>,
                          <<"i","n","i">>, <<"i","n">>, <<"i">>, <<"i","m","o">> >>
DIMINUTIVE_PREFIXES_N == << <<"p","i","l">> >>

PLURAL_SUFFIXES_N == << <<"m","e","j">>, <<"m","e">> >>
GENITIVE_SUFFIXES_N == << <<"w","a","n">>, <<"w","a">>, <<"y","o">> >>
DIMINUTIVE_SUFFIXES_N == << <<"z","i","z","i","n">>, <<"z","i","n","z","i","n">>, <<"z","i","n">>,
                            <<"z","i","z","i">>, <<"z","i">>, <<"p","i","l">> >>

\* The values of the dict ABSOLUTIVE_SUFFIXES_N, in insertion order; the keys
\* (the regular expressions) are AbsolutiveMatches below.
ABSOLUTIVE_SUFFIXES_N == << <<"L","i">>, <<"L">>, <<"i">>, <<"i","n">>, <<"m","e">>, <<"m","e","j">> >>

---------------------------------------------------------------------------
(* parse.py: the template matcher *)

\* re.search(pattern + '$', w) where the pattern's own text is lit: '$' matches
\* at the end of w, and also just before one trailing newline.  Gives the set
\* of 0-based positions where lit can start.
DollarStarts(w, lit) ==
    {s \in 0..Len(w) :
        /\ s + Len(lit) <= Len(w)
        /\ SubSeq(w, s + 1, s + Len(lit)) = lit
        /\ \/ s + Len(lit) = Len(w)
           \/ s + Len(lit) = Len(w) - 1 /\ w[Len(w)] = "\n"}

\* bool(re.search(key + '$', w)) for the k-th key of ABSOLUTIVE_SUFFIXES_N:
\*   1 '(?<!=[aeiou])Li'  not preceded by '=' and a vowel
\*   2 '(?<=[aeiou])L'    preceded by a vowel
\*   3 '(?<=[l])i'        preceded by 'l'
\*   4 '(?!<=[z])in'      not followed by '<=' and 'z', at the place 'in' starts
\*   5 'me'   6 'mej'
AbsolutiveMatches(w, k) ==
    \E s \in DollarStarts(w, ABSOLUTIVE_SUFFIXES_N[k]) :
        CASE k = 1 -> ~(s >= 2 /\ w[s-1] = "=" /\ w[s] \in VOWELS)
          [] k = 2 -> s >= 1 /\ w[s] \in VOWELS
          [] k = 3 -> s >= 1 /\ w[s] = "l"
          [] k = 4 -> ~(s + 3 <= Len(w) /\ w[s+1] = "<" /\ w[s+2] = "=" /\ w[s+3] = "z")
          [] OTHER -> TRUE

RECURSIVE search_prefix_from(_, _, _)
search_prefix_from(w, prefixes, i) ==
    IF i > Len(prefixes) THEN [word |-> w, found |-> None]
    ELSE IF startswith(w, prefixes[i])
         THEN [word |-> DropFirst(w, Len(prefixes[i])), found |-> prefixes[i]]
         ELSE search_prefix_from(w, prefixes, i + 1)

\* search_prefix with a list of literals (no caller passes a dict)
search_prefix(w, prefixes) == search_prefix_from(w, prefixes, 1)

\* CutSuffix cutting at the first occurrence of the suffix, word[:word.index(suffix)]
CutSuffix_at_first_occurrence(w, used) ==
    TakeFirst(w, (CHOOSE s \in 0..Len(w) :
                    /\ s + Len(used) <= Len(w)
                    /\ SubSeq(w, s + 1, s + Len(used)) = used
                    /\ \A t \in 0..(s-1) : SubSeq(w, t + 1, t + Len(used)) # used))

\* word[:ind] with ind = len(word) - len(used_suffix); ind >= 0 here
CutSuffix(w, used) == TakeFirst(w, Len(w) - Len(used))

RECURSIVE search_suffix_from(_, _, _)
search_suffix_from(w, suffixes, i) ==
    IF i > Len(suffixes) THEN [word |-> w, found |-> None]
    ELSE IF endswith(w, suffixes[i])
         THEN [word |-> CutSuffix(w, suffixes[i]), found |-> suffixes[i]]
         ELSE search_suffix_from(w, suffixes, i + 1)

\* search_suffix with a list of literals
search_suffix(w, suffixes) == search_suffix_from(w, suffixes, 1)

RECURSIVE search_absolutive_from(_, _)
search_absolutive_from(w, k) ==
    IF k > Len(ABSOLUTIVE_SUFFIXES_N) THEN [word |-> w, found |-> None]
    ELSE IF AbsolutiveMatches(w, k)
         THEN [word |-> CutSuffix(w, ABSOLUTIVE_SUFFIXES_N[k]), found |-> ABSOLUTIVE_SUFFIXES_N[k]]
         ELSE search_absolutive_from(w, k + 1)

\* search_suffix with the dict ABSOLUTIVE_SUFFIXES_N
search_absolutive(noun) == search_absolutive_from(noun, 1)

search_genitive(noun) == search_prefix(noun, GENITIVE_PREFIXES_N)

---------------------------------------------------------------------------
(* parse.py: the segmenter *)

RECURSIVE StripPrefixes(_, _, _, _)
\* the prefix loop of parse_word
StripPrefixes(w, tiers, i, morphemes) ==
    IF i > Len(tiers) THEN [word |-> w, morphemes |-> morphemes]
    ELSE LET r == search_prefix(w, tiers[i])
         IN StripPrefixes(r.word, tiers, i + 1,
                          IF r.found # None THEN Append(morphemes, r.found) ELSE morphemes)

RECURSIVE StripSuffixes(_, _, _, _)
\* the suffix loop of parse_word
StripSuffixes(w, tiers, i, found_suffixes) ==
    IF i > Len(tiers) THEN [word |-> w, found_suffixes |-> found_suffixes]
    ELSE LET r == search_suffix(w, tiers[i])
         IN StripSuffixes(r.word, tiers, i + 1,
                          IF r.found # None THEN Append(found_suffixes, r.found) ELSE found_suffixes)

parse_word(w, prefixes, suffixes) ==
    LET p == StripPrefixes(w, prefixes, 1, <<>>)
        s == StripSuffixes(p.word, suffixes, 1, <<>>)
    IN [morphemes |-> Append(p.morphemes, s.word) \o Reverse(s.found_suffixes),
        lemma |-> s.word]

\* the condition of join_on_illegal_sequence
IllegalStart(lemma) ==
    \/ Len(lemma) = 0
    \/ lemma[1] \notin VOWELS /\ (Len(lemma) = 1 \/ lemma[2] \notin VOWELS)

RECURSIVE join_until_legal(_, _)
\* the repair applied again to its own result, until the lemma is legal or first
join_until_legal(morphemes, lemma) ==
    IF IllegalStart(lemma) /\ index(morphemes, lemma) # 0
    THEN LET lemma_index == index(morphemes, lemma)
             joined == morphemes[lemma_index] \o lemma
         IN join_until_legal(SubSeq(morphemes, 1, lemma_index - 1) \o <<joined>>
                                \o SubSeq(morphemes, lemma_index + 2, Len(morphemes)),
                             joined)
    ELSE [morphemes |-> morphemes, lemma |-> lemma]

join_on_illegal_sequence(morphemes, lemma) ==
    IF IllegalStart(lemma)
    THEN LET lemma_index == index(morphemes, lemma)
         IN IF lemma_index = 0
            THEN [morphemes |-> morphemes, lemma |-> lemma]
            ELSE LET joined == morphemes[lemma_index] \o lemma
                 IN [morphemes |-> SubSeq(morphemes, 1, lemma_index - 1) \o <<joined>>
                                     \o SubSeq(morphemes, lemma_index + 2, Len(morphemes)),
                     lemma |-> joined]
    ELSE [morphemes |-> morphemes, lemma |-> lemma]

VerbPrefixTiers == <<NEGATION_PREFIXES_V, SUBJECT_PREFIXES_V, REFLEXIVE_PREFIXES_V,
                     OBJECT_PREFIXES_V, COMMON_PREFIXES_V, DIRECTIONAL_PREFIXES_V>>

VerbSuffixTiers == <<NUMBER_SUFFIXES_V, DIRECTIONAL_SUFFIXES_V, TENSE_SUFFIXES_V,
                     CAUSATIVE_SUFFIXES_V>>

\* parse_verb before its final repair
parse_verb_raw(verb) == parse_word(verb, VerbPrefixTiers, VerbSuffixTiers)

parse_verb(verb) ==
    LET p == parse_verb_raw(verb)
    IN join_on_illegal_sequence(p.morphemes, p.lemma)

\* the suffix tiers parse_noun picks when there is no absolutive
NounSuffixTiers(noun) ==
    IF search_genitive(noun).found # None
    THEN <<DIMINUTIVE_SUFFIXES_N, GENITIVE_SUFFIXES_N>>
    ELSE <<PLURAL_SUFFIXES_N, DIMINUTIVE_SUFFIXES_N>>

\* parse_noun before its final repair
parse_noun_raw(noun) ==
    LET a == search_absolutive(noun)
    IN IF a.found = None
       THEN parse_word(noun, <<SUBJECT_PREFIXES_V, GENITIVE_PREFIXES_N, DIMINUTIVE_PREFIXES_N>>,
                       NounSuffixTiers(noun))
       ELSE LET p == parse_word(a.word, <<SUBJECT_PREFIXES_V, DIMINUTIVE_PREFIXES_N>>,
                                <<DIMINUTIVE_SUFFIXES_N>>)
            IN [morphemes |-> Append(p.morphemes, a.found), lemma |-> p.lemma]

parse_noun(noun) ==
    LET p == parse_noun_raw(noun)
    IN join_on_illegal_sequence(p.morphemes, p.lemma)

---------------------------------------------------------------------------
(* pos_tagger.py: the rule cascade *)

COMMON_SUFFIXES == << <<"k","o">>, <<"s">> >>
PLURAL_VERB_PREFIXES == << <<"t","i">>, <<"t","i">>, <<"i","n">>, <<"a","n">> >>
VERB_ENDINGS == << <<"o","w","a">>, <<"i","y","a">>, <<"o","a">>, <<"i","a">> >>

\* [item for item in OBJECT_PREFIXES_V if item != 'te' and item != 'La']
NotImpersonal(item) == item # <<"t","e">> /\ item # <<"L","a">>
\* the filter of line 33 inverted: only 'te' and 'La' kept
Impersonal(item) == ~NotImpersonal(item)
PersonalObjectPrefixes_inverted == SelectSeq(OBJECT_PREFIXES_V, Impersonal)

PersonalObjectPrefixes == SelectSeq(OBJECT_PREFIXES_V, NotImpersonal)

\* `a_list in list_of_str`: a Python list never equals a str, so the test is
\* False whatever the list holds.
ListInStrs(a_list, strs) == FALSE

\* any(x in list for x in candidates)
AnyIn(candidates, list) == \E i \in 1..Len(candidates) : InList(candidates[i], list)

\* if x: for x a str or None
Truthy(x) == x # None /\ x # <<>>

\* What the rules read: the two segmentations, the absolutive probe of line 22
\* and the subject probe of line 31.
RuleContext(w) ==
    LET n == parse_noun(w)
        v == parse_verb(w)
        noun_lemma_pos == index(n.morphemes, n.lemma)
        verb_lemma_pos == index(v.morphemes, v.lemma)
    IN [noun_lemma |-> n.lemma, verb_lemma |-> v.lemma, verb_morphemes |-> v.morphemes,
        absolutive |-> search_absolutive(w).found,
        subj |-> search_prefix(w, SUBJECT_PREFIXES_V),
        before_v |-> SubSeq(v.morphemes, 1, verb_lemma_pos),
        from_v |-> SubSeq(v.morphemes, verb_lemma_pos + 1, Len(v.morphemes)),
        before_n |-> SubSeq(n.morphemes, 1, noun_lemma_pos),
        from_n |-> SubSeq(n.morphemes, noun_lemma_pos + 1, Len(n.morphemes))]

\* The rules are numbered as the cascade is: 1 the word lists, 2 subject and
\* object prefix, 3 'kii', 4 absolutive, 5 plural, 6 optative or verb ending,
\* 7 tense or directional suffix, 8 object prefix, 9 genitive prefix,
\* 10 diminutive suffix, 11 subject prefix and common suffix.
\* RuleFires: the condition of rule k's if statement.
RuleFires(k, w, c, verbs, non_verbs) ==
    CASE k = 1 -> \/ c.noun_lemma \in non_verbs /\ c.verb_lemma \notin verbs
                  \/ c.noun_lemma \notin non_verbs /\ c.verb_lemma \in verbs
      [] k = 2 -> /\ Truthy(c.subj.found)
                  /\ Truthy(search_prefix(c.subj.word, PersonalObjectPrefixes).found)
      [] k = 3 -> startswith(w, <<"k","i","i">>)
      [] k = 4 -> Truthy(c.absolutive)
      [] k = 5 -> /\ ListInStrs(SubSeq(c.verb_morphemes, 1, Len(c.verb_morphemes) - 1),
                                NUMBER_SUFFIXES_V)
                  /\ AnyIn(PLURAL_VERB_PREFIXES, c.before_v)
      [] k = 6 -> \/ c.verb_morphemes[1] = <<"x","i">>
                  \/ \E i \in 1..Len(VERB_ENDINGS) : endswith(c.verb_lemma, VERB_ENDINGS[i])
      [] k = 7 -> \E i \in 1..Len(TENSE_SUFFIXES_V \o DIRECTIONAL_SUFFIXES_V) :
                      LET suffix == (TENSE_SUFFIXES_V \o DIRECTIONAL_SUFFIXES_V)[i]
                      IN InList(suffix, c.from_v) /\ ~InList(suffix, COMMON_SUFFIXES)
      [] k = 8 -> AnyIn(OBJECT_PREFIXES_V, c.before_v)
      [] k = 9 -> AnyIn(GENITIVE_PREFIXES_N, c.before_n)
      [] k = 10 -> AnyIn(DIMINUTIVE_SUFFIXES_N, c.from_n)
      [] k = 11 -> AnyIn(SUBJECT_PREFIXES_V, c.before_v) /\ AnyIn(COMMON_SUFFIXES, c.from_v)

\* RuleReturns: what rule k returns when it fires: "True", "False" (Python's
\* True and False).
RuleReturns(k, c, verbs, non_verbs) ==
    CASE k = 1 -> IF c.noun_lemma \in non_verbs /\ c.verb_lemma \notin verbs
                  THEN "False" ELSE "True"
      [] k \in {4, 9, 10} -> "False"
      [] OTHER -> "True"

\* the absolutive check moved below the verb heuristics
RULE_ORDER_absolutive_late == <<1, 2, 3, 5, 6, 7, 8, 4, 9, 10, 11>>

\* the order the if statements stand in
RULE_ORDER == <<1, 2, 3, 4, 5, 6, 7, 8, 9, 10, 11>>

RECURSIVE Cascade(_, _, _, _, _, _)
\* the first rule of order, from its i-th on, that fires returns; when none
\* does the function returns None (numbered 12)
Cascade(order, i, w, c, verbs, non_verbs) ==
    IF i > Len(order) THEN [result |-> "None", rule |-> 12]
    ELSE IF RuleFires(order[i], w, c, verbs, non_verbs)
         THEN [result |-> RuleReturns(order[i], c, verbs, non_verbs), rule |-> order[i]]
         ELSE Cascade(order, i + 1, w, c, verbs, non_verbs)

is_verb_rb(w, verbs, non_verbs) == Cascade(RULE_ORDER, 1, w, RuleContext(w), verbs, non_verbs)

---------------------------------------------------------------------------
(* gloss.py: the Verb class.  A Verb under construction is a record of its  *)
(* attributes; an attribute not yet assigned is "unset", None is "None",   *)
(* and raised is "None" or the exception that ended the construction.      *)

\* self.morphemes[i] for 0 <= i < len: a str of one character when
\* self.morphemes is a str, a morpheme when it is a list
Item(morphemes, i) == IF morphemes \in Seq(STRING) THEN <<morphemes[i + 1]>> ELSE morphemes[i + 1]

\* self.morphemes[self.prefix_index] is in range
CursorValid(v) == v.prefix_index < Len(v.morphemes)

Cursor(v) == Item(v.morphemes, v.prefix_index)

\* an exception has ended the construction of v
Raised(v) == v.raised # "None"

\* __init__ up to the call of search_plural: self.morphemes is element [1] of
\* parse_verb's tuple, the lemma, a str
NewVerb(w) ==
    LET morphemes == parse_verb(w).lemma
    IN [word |-> w, morphemes |-> morphemes,
        prefix_index |-> 0, suffix_index |-> Len(morphemes) - 1,
        plural |-> "unset", negative |-> "unset", tense |-> "unset", optative |-> "unset",
        person |-> "unset", reflexive |-> "unset", object |-> "unset", impersonal |-> "unset",
        direction |-> "unset", raised |-> "None", at |-> "None"]

\* OPTATIVE_PLURAL_SUFFIXES_V is defined nowhere: reading it raises NameError
search_plural(v) ==
    IF Len(v.morphemes) >= 1 /\ Item(v.morphemes, 0) = <<"x","i">>
    THEN [v EXCEPT !.raised = "NameError", !.at = "search_plural"]
    ELSE IF Len(v.morphemes) = 0
         THEN [v EXCEPT !.raised = "IndexError", !.at = "search_plural"]
         ELSE [v EXCEPT !.plural = (Item(v.morphemes, Len(v.morphemes) - 1) = <<"j">>)]

get_negative(v) ==
    IF ~CursorValid(v) THEN [v EXCEPT !.raised = "IndexError", !.at = "get_negative"]
    ELSE IF InList(Cursor(v), NEGATION_PREFIXES_V)
         THEN [v EXCEPT !.negative = TRUE, !.prefix_index = @ + 1]
         ELSE [v EXCEPT !.negative = FALSE]

get_past_prefix(v) ==
    IF ~CursorValid(v) THEN [v EXCEPT !.raised = "IndexError", !.at = "get_past_prefix"]
    ELSE IF InList(Cursor(v), TENSE_PREFIXES_V)
         THEN [v EXCEPT !.tense = "past", !.prefix_index = @ + 1]
         ELSE [v EXCEPT !.tense = "None"]

\* SUBJECT_MATCHER is an attribute of the class, read in the method as a bare
\* name: the elif that reads it raises NameError
get_subject_person(v) ==
    IF ~CursorValid(v) THEN [v EXCEPT !.raised = "IndexError", !.at = "get_subject_person"]
    ELSE IF Cursor(v) = <<"x","i">>
         THEN [v EXCEPT !.optative = TRUE, !.person = 2, !.prefix_index = @ + 1]
         ELSE [v EXCEPT !.raised = "NameError", !.at = "get_subject_person"]

get_reflexive(v) ==
    IF ~CursorValid(v) THEN [v EXCEPT !.raised = "IndexError", !.at = "get_reflexive"]
    ELSE IF (v.person = 1 /\ Cursor(v) = <<"n","o">>) \/ Cursor(v) = <<"m","o">>
         THEN [v EXCEPT !.reflexive = TRUE, !.prefix_index = @ + 1]
         ELSE [v EXCEPT !.reflexive = FALSE]

\* OBJECT_MATCHER is read as a bare name too, after the cursor's item is
get_object(v) ==
    IF ~CursorValid(v) THEN [v EXCEPT !.raised = "IndexError", !.at = "get_object"]
    ELSE [v EXCEPT !.raised = "NameError", !.at = "get_object"]

get_direction(v) ==
    IF ~CursorValid(v) THEN [v EXCEPT !.raised = "IndexError", !.at = "get_direction"]
    ELSE IF InList(Cursor(v), DIRECTIONAL_PREFIXES_V)
         THEN [v EXCEPT !.direction = IF Cursor(v) = <<"w","a","l">> THEN "towards" ELSE "away",
                        !.prefix_index = @ + 1]
         ELSE [v EXCEPT !.direction = "None"]

\* the calls __init__ makes, in order
INIT_CALLS == <<"search_plural", "get_negative", "get_past_prefix", "get_subject_person",
                "get_reflexive", "get_object", "get_direction">>

CallMethod(name, v) ==
    CASE name = "search_plural" -> search_plural(v)
      [] name = "get_negative" -> get_negative(v)
      [] name = "get_past_prefix" -> get_past_prefix(v)
      [] name = "get_subject_person" -> get_subject_person(v)
      [] name = "get_reflexive" -> get_reflexive(v)
      [] name = "get_object" -> get_object(v)
      [] name = "get_direction" -> get_direction(v)

RECURSIVE RunCalls(_, _)
\* the calls from the i-th on; nothing runs after an exception
RunCalls(v, i) ==
    IF i > Len(INIT_CALLS) \/ Raised(v) THEN v
    ELSE RunCalls(CHOOSE after \in {CallMethod(INIT_CALLS[i], v)} : TRUE, i + 1)

\* Verb(word): __init__ with its chain of calls
VerbInit(w) == RunCalls(NewVerb(w), 1)

\* The methods of Verb are annotated `-> Verb` inside the class body.  Where
\* annotations are evaluated as the def runs, the class body raises NameError
\* and no Verb can be made; where they are deferred, __init__ runs.
VerbClassRaises(w) ==
    [NewVerb(w) EXCEPT !.raised = "NameError", !.at = "class Verb"]

---------------------------------------------------------------------------
(* orthography_converter.py *)

UPPERCASE == <<"A","B","C","D","E","F","G","H","I","J","K","L","M",
               "N","O","P","Q","R","S","T","U","V","W","X","Y","Z">>
LOWERCASE == <<"a","b","c","d","e","f","g","h","i","j","k","l","m",
               "n","o","p","q","r","s","t","u","v","w","x","y","z">>

\* text.lower()
lower(t) == [i \in 1..Len(t) |->
                IF \E k \in 1..Len(UPPERCASE) : UPPERCASE[k] = t[i]
                THEN LOWERCASE[CHOOSE k \in 1..Len(UPPERCASE) : UPPERCASE[k] = t[i]]
                ELSE t[i]]

RECURSIVE replace(_, _, _)
\* text.replace(old, new), old not empty: the occurrences are taken left to
\* right and do not overlap
replace(t, old, new) ==
    IF t = <<>> THEN <<>>
    ELSE IF startswith(t, old) THEN new \o replace(DropFirst(t, Len(old)), old, new)
         ELSE <<Head(t)>> \o replace(Tail(t), old, new)

RECURSIVE sub_before(_, _, _, _)
\* re.sub(c + '(?=[' + followers + '])', new, text): the one character c,
\* where one of followers comes next, becomes new
sub_before(t, c, followers, new) ==
    IF t = <<>> THEN <<>>
    ELSE IF Head(t) = c /\ Len(t) >= 2 /\ t[2] \in followers
         THEN new \o sub_before(Tail(t), c, followers, new)
         ELSE <<Head(t)>> \o sub_before(Tail(t), c, followers, new)

DOUBLED == {"c","j","k","l","m","n","p","q","s","t","w","x","y","z"}

RECURSIVE undouble(_)
\* re.sub(r'([cjklmnpqstwxyz])\1', r'\1', text): each pair, taken left to
\* right without overlap, becomes one
undouble(t) ==
    IF t = <<>> THEN <<>>
    ELSE IF Len(t) >= 2 /\ Head(t) \in DOUBLED /\ t[2] = Head(t)
         THEN <<Head(t)>> \o undouble(DropFirst(t, 2))
         ELSE <<Head(t)>> \o undouble(Tail(t))

\* the dicts MODERN and CLASSIC as lists of <<grapheme, phoneme>>, in the order
\* convert's two loops visit them
MODERN == << << <<"h">>, <<"j">> >>, << <<"q","u">>, <<"k">> >>, << <<"k","w">>, <<"q">> >>,
             << <<"k","u">>, <<"q">> >>, << <<"t","s">>, <<"z">> >>, << <<"t","z">>, <<"z">> >>,
             << <<"u">>, <<"w">> >>, << <<"t","l">>, <<"L">> >> >>

CLASSIC == << << <<"q","u">>, <<"k">> >>, << <<"z">>, <<"s">> >>, << <<"t","s">>, <<"z">> >>,
              << <<"h","u">>, <<"w">> >>, << <<"u","h">>, <<"w">> >>, << <<"u">>, <<"w">> >>,
              << <<"t","l">>, <<"L">> >> >>

c_convert(t) ==
    LET t1 == sub_before(t, "c", {"i", "e"}, <<"s">>)
        t2 == sub_before(t1, "c", {"o", "a"}, <<"k">>)
        t3 == replace(t2, <<"c","u">>, <<"q">>)
        t4 == replace(t3, <<"c","z">>, <<"s">>)
        t5 == replace(t4, <<"c">>, <<"k">>)
    IN replace(t5, <<"k","h">>, <<"c">>)

RECURSIVE substitute(_, _, _)
\* the two nested loops of convert
substitute(t, substitutions, i) ==
    IF i > Len(substitutions) THEN t
    ELSE substitute(replace(t, substitutions[i][1], substitutions[i][2]), substitutions, i + 1)

\* Orthography(uses_c, substitutions).convert(text)
convert(uses_c, substitutions, t) ==
    undouble(substitute(IF uses_c THEN c_convert(lower(t)) ELSE lower(t), substitutions, 1))

\* ORTHO_DICT[name].convert(text)
ortho_convert(name, t) ==
    IF name = "modern" THEN convert(FALSE, MODERN, t) ELSE convert(TRUE, CLASSIC, t)

---------------------------------------------------------------------------
(* tokenizer.py.  A parse output (a tuple of a list and a str) is a record  *)
(* [morphemes, lemma], as parse_verb returns it.                            *)

remove_empty(morphemes) == SelectSeq(morphemes, LAMBDA item : item # <<>>)

agglutination_checker(parse_output, nouns) ==
    LET lemma_ind == index(parse_output.morphemes, parse_output.lemma)
        r == search_prefix(parse_output.lemma, nouns)
    IN IF Truthy(r.found)
       THEN [morphemes |-> SubSeq(parse_output.morphemes, 1, lemma_ind) \o <<r.found, r.word>>
                            \o SubSeq(parse_output.morphemes, lemma_ind + 2,
                                      Len(parse_output.morphemes)),
             lemma |-> r.word]
       ELSE parse_output

chaining_checker(parse_output, verbs) ==
    LET lemma_ind == index(parse_output.morphemes, parse_output.lemma)
        r == search_prefix(parse_output.lemma, [i \in 1..Len(verbs) |-> verbs[i] \o <<"s">>])
    IN IF Truthy(r.found)
       THEN [morphemes |-> SubSeq(parse_output.morphemes, 1, lemma_ind)
                            \o <<TakeFirst(r.found, Len(r.found) - 1), <<"s">>, r.word>>
                            \o SubSeq(parse_output.morphemes, lemma_ind + 2,
                                      Len(parse_output.morphemes)),
             lemma |-> r.word]
       ELSE parse_output

join_seq(analysis_result) ==
    join_on_illegal_sequence(analysis_result.morphemes, analysis_result.lemma)

\* the elements of a list
Elements(list) == {list[i] : i \in 1..Len(list)}

\* list(tokens), the set() left out: every token, in the text's order
UniqueForms_without_set(tokens) == {tokens}

\* list(set(tokens)): each form once, in an order the set decides; every order
\* can come out
UniqueForms(tokens) ==
    LET forms == Elements(tokens)
    IN {order \in [1..Cardinality(forms) -> forms] : Elements(order) = forms}

\* line 75: set(basic + noun_lemmas + verb_lemmas)
AllLemmas(a) == Elements(a.basic) \cup Elements(a.noun_lemmas) \cup Elements(a.verb_lemmas)

\* the if of line 84
Unlisted(a, w) == ~InList(w, a.basic) /\ ~InList(w, a.verb_lemmas) /\ ~InList(w, a.noun_lemmas)

\* parse_verb and parse_noun are defined with one parameter each; line 86 calls
\* either with two arguments
PARSE_VERB_PARAMS == 1
PARSE_NOUN_PARAMS == 1
PARSE_CALL_ARGS == 2

\* lines 78-81: the text converted when an orthography is given
TokConverted(a) ==
    IF a.convert_ortho = "None" THEN a.text
    ELSE [i \in 1..Len(a.text) |-> ortho_convert(a.convert_ortho, a.text[i])]

\* lines 89-90
NounCompoundChecked(a, parsed) ==
    IF a.noun_compound_check
    THEN [i \in 1..Len(parsed) |->
            IF parsed[i].lemma \notin AllLemmas(a)
            THEN join_seq(agglutination_checker(parsed[i], a.noun_lemmas))
            ELSE parsed[i]]
    ELSE parsed

\* lines 93-94
VerbCompoundChecked(a, parsed) ==
    IF a.verb_compound_check
    THEN [i \in 1..Len(parsed) |->
            join_seq(IF parsed[i].lemma \notin AllLemmas(a)
                     THEN chaining_checker(parsed[i], a.verb_lemmas)
                     ELSE parsed[i])]
    ELSE parsed

\* lines 97-99: the dict parsings, as the function of a token it is
parsings(a, ws, parsed, token) ==
    IF token \in AllLemmas(a) THEN <<token>>
    ELSE parsed[index(ws, token) + 1].morphemes

---------------------------------------------------------------------------
(* The words the calls are tried on: every concatenation of at most        *)
(* MaxPieces pieces.                                                       *)

MaxPieces == 3

Pieces == { <<"n","i">>, <<"k">>, <<"k","o","c","h","i">>, <<"k","w","a">>, <<"w","a","l">>,
            <<"o","n">>, <<"n","o">>, <<"L">>, <<"t","i">>, <<"e","w","a">>, <<"j">>,
            <<"o">> }

RECURSIVE WordsOf(_)
WordsOf(n) == IF n = 0 THEN {<<>>}
              ELSE WordsOf(n - 1) \cup {p \o w : p \in Pieces, w \in WordsOf(n - 1)}

Words == WordsOf(MaxPieces)

\* the word lists is_verb_rb is tried with
LexVerbChoices == { {}, {<<"k","o","c","h","i">>}, {<<"o","c","h","i">>} }
LexNounChoices == { {}, {<<"k","o","c","h","i">>} }

---------------------------------------------------------------------------
(* The calls *)

\* no tokenize_text call is running
TokIdle ==
    /\ args = None
    /\ text = <<>>
    /\ words = <<>>
    /\ classes = <<>>
    /\ parsed_words = <<>>
    /\ calls = <<>>

Init ==
    /\ pc = "input"
    /\ word \in Words
    /\ verb_list = {}
    /\ non_verb_list = {}
    /\ ret = None
    /\ TokIdle

\* parse_verb(word)
ParseVerb ==
    /\ pc = "input"
    /\ pc' = "parse_verb"
    /\ ret' = parse_verb(word)
    /\ UNCHANGED <<word, verb_list, non_verb_list>>
    /\ UNCHANGED tokvars

\* parse_noun(word)
ParseNoun ==
    /\ pc = "input"
    /\ pc' = "parse_noun"
    /\ ret' = parse_noun(word)
    /\ UNCHANGED <<word, verb_list, non_verb_list>>
    /\ UNCHANGED tokvars

\* is_verb_rb(word, verbs, non_verbs)
Classify ==
    /\ pc = "input"
    /\ \E verbs \in LexVerbChoices, non_verbs \in LexNounChoices :
        /\ verb_list' = verbs
        /\ non_verb_list' = non_verbs
        /\ ret' = is_verb_rb(word, verbs, non_verbs)
    /\ pc' = "is_verb_rb"
    /\ UNCHANGED word
    /\ UNCHANGED tokvars

\* Verb(word)
MakeVerb ==
    /\ pc = "input"
    /\ pc' = "Verb"
    /\ \E deferred_annotations \in BOOLEAN :
        ret' = IF deferred_annotations THEN VerbInit(word) ELSE VerbClassRaises(word)
    /\ UNCHANGED <<word, verb_list, non_verb_list>>
    /\ UNCHANGED tokvars

Next == ParseVerb \/ ParseNoun \/ Classify \/ MakeVerb

Spec == Init /\ [][Next]_vars

---------------------------------------------------------------------------
(* tokenize_text, statement by statement *)

MaxTokens == 2

TokenForms == { <<"n","i","k","o","c","h","i">>, <<"k","a","L">>, <<"w","a","l">>,
                <<"k","o","c","h","i">> }

Texts == UNION {[1..n -> TokenForms] : n \in 0..MaxTokens}

\* the word lists tokenize_text is tried with: basic, verb_lemmas, noun_lemmas
TokenLexicons ==
    { [basic |-> <<>>, verb_lemmas |-> <<>>, noun_lemmas |-> <<>>],
      [basic |-> <<>>, verb_lemmas |-> << <<"k","o","c","h","i">> >>,
       noun_lemmas |-> << <<"k","a","l">> >>],
      [basic |-> << <<"w","a","l">> >>, verb_lemmas |-> << <<"k","o","c","h","i">> >>,
       noun_lemmas |-> <<>>],
      [basic |-> <<>>, verb_lemmas |-> << <<"o","c","h","i">> >>, noun_lemmas |-> <<>>] }

TokInit ==
    /\ pc = "tok_start"
    /\ \E t \in Texts, lex \in TokenLexicons, ncc \in BOOLEAN, vcc \in BOOLEAN,
          ortho \in {"None", "modern", "classical"} :
        args = [text |-> t, basic |-> lex.basic, verb_lemmas |-> lex.verb_lemmas,
                noun_lemmas |-> lex.noun_lemmas, noun_compound_check |-> ncc,
                verb_compound_check |-> vcc, convert_ortho |-> ortho]
    /\ text = <<>>
    /\ words = <<>>
    /\ classes = <<>>
    /\ parsed_words = <<>>
    /\ calls = <<>>
    /\ word = <<>>
    /\ verb_list = {}
    /\ non_verb_list = {}
    /\ ret = None

\* lines 72-81
TokConvert ==
    /\ pc = "tok_start"
    /\ text' = TokConverted(args)
    /\ pc' = "tok_words"
    /\ UNCHANGED <<ret, args, words, classes, parsed_words, calls, wordvars>>

\* line 84
TokWords ==
    /\ pc = "tok_words"
    /\ \E order \in UniqueForms(text) :
        words' = SelectSeq(order, LAMBDA w : Unlisted(args, w))
    /\ calls' = [w \in Elements(text) |-> [classify |-> 0, segment |-> 0]]
    /\ pc' = IF words' = <<>> THEN "tok_noun_check" ELSE "tok_classify"
    /\ UNCHANGED <<ret, args, text, classes, parsed_words, wordvars>>

\* line 85, one word of the comprehension
TokClassify ==
    /\ pc = "tok_classify"
    /\ LET w == words[Len(classes) + 1]
       IN /\ classes' = Append(classes, is_verb_rb(w, Elements(args.verb_lemmas),
                                                   Elements(args.noun_lemmas)).result)
          /\ calls' = [calls EXCEPT ![w].classify = @ + 1]
    /\ pc' = IF Len(classes') = Len(words) THEN "tok_parse" ELSE "tok_classify"
    /\ UNCHANGED <<ret, args, text, words, parsed_words, wordvars>>

\* line 86, one word of the comprehension: the call raises TypeError when the
\* arguments passed are not as many as the parameters
TokParse ==
    /\ pc = "tok_parse"
    /\ LET w == words[Len(parsed_words) + 1]
           is_verb == classes[Len(parsed_words) + 1] = "True"
           params == IF is_verb THEN PARSE_VERB_PARAMS ELSE PARSE_NOUN_PARAMS
       IN /\ calls' = [calls EXCEPT ![w].segment = @ + 1]
          /\ IF PARSE_CALL_ARGS = params
             THEN /\ parsed_words' = Append(parsed_words,
                                            IF is_verb THEN parse_verb(w) ELSE parse_noun(w))
                  /\ pc' = IF Len(parsed_words') = Len(words)
                           THEN "tok_noun_check" ELSE "tok_parse"
                  /\ ret' = ret
             ELSE /\ parsed_words' = parsed_words
                  /\ pc' = "tok_raised"
                  /\ ret' = [raised |-> "TypeError", result |-> None]
    /\ UNCHANGED <<args, text, words, classes, wordvars>>

\* lines 89-90
TokNounCheck ==
    /\ pc = "tok_noun_check"
    /\ parsed_words' = NounCompoundChecked(args, parsed_words)
    /\ pc' = "tok_verb_check"
    /\ UNCHANGED <<ret, args, text, words, classes, calls, wordvars>>

\* lines 93-94
TokVerbCheck ==
    /\ pc = "tok_verb_check"
    /\ parsed_words' = VerbCompoundChecked(args, parsed_words)
    /\ pc' = "tok_emit"
    /\ UNCHANGED <<ret, args, text, words, classes, calls, wordvars>>

\* lines 97-100
TokEmit ==
    /\ pc = "tok_emit"
    /\ ret' = [raised |-> "None",
               result |-> [i \in 1..Len(text) |->
                             remove_empty(parsings(args, words, parsed_words, text[i]))]]
    /\ pc' = "tok_done"
    /\ UNCHANGED <<args, text, words, classes, parsed_words, calls, wordvars>>

TokNext == TokConvert \/ TokWords \/ TokClassify \/ TokParse \/ TokNounCheck
              \/ TokVerbCheck \/ TokEmit

TokSpec == TokInit /\ [][TokNext]_vars

---------------------------------------------------------------------------
(* Orthography.convert, applied once and then to its own result *)

MaxOrthoLen == 3

OrthoLetters == {"t", "l", "k", "c", "u", "h"}

RECURSIVE OrthoTextsOf(_)
OrthoTextsOf(n) == IF n = 0 THEN {<<>>}
                   ELSE OrthoTextsOf(n - 1)
                        \cup {<<c>> \o t : c \in OrthoLetters, t \in OrthoTextsOf(n - 1)}

OrthoInit ==
    /\ pc = "ortho_input"
    /\ word \in OrthoTextsOf(MaxOrthoLen)
    /\ verb_list = {}
    /\ non_verb_list = {}
    /\ ret = None
    /\ TokIdle

\* ORTHO_DICT[name].convert(word)
OrthoConvert ==
    /\ pc = "ortho_input"
    /\ \E name \in {"modern", "classical"} :
        ret' = [ortho |-> name, once |-> ortho_convert(name, word), twice |-> None]
    /\ pc' = "ortho_once"
    /\ UNCHANGED <<wordvars, tokvars>>

\* ORTHO_DICT[name].convert(what the first call returned)
OrthoConvertAgain ==
    /\ pc = "ortho_once"
    /\ ret' = [ret EXCEPT !.twice = ortho_convert(ret.ortho, ret.once)]
    /\ pc' = "ortho_twice"
    /\ UNCHANGED <<wordvars, tokvars>>

OrthoNext == OrthoConvert \/ OrthoConvertAgain

OrthoSpec == OrthoInit /\ [][OrthoNext]_vars

---------------------------------------------------------------------------
(* The claims, checked under Spec *)

W_ni == <<"n","i">>
W_k == <<"k">>
W_kochi == <<"k","o","c","h","i">>
W_ochi == <<"o","c","h","i">>
W_kkwa == <<"k","k","w","a">>
W_nikochi == <<"n","i","k","o","c","h","i">>
W_nikkwa == <<"n","i","k","k","w","a">>

Parsed == pc \in {"parse_verb", "parse_noun"}

\* the segmentation before the final repair, of the call that ran
RawOfCall == IF pc = "parse_verb" THEN parse_verb_raw(word) ELSE parse_noun_raw(word)

\* C1: the morphemes parse_verb(w) returns, and those parse_noun(w) returns,
\* concatenated in order, are w.
C1_RoundTrip == Parsed => Concat(ret.morphemes) = word

\* C1 witness: parse_noun took the absolutive branch and the repair merged the
\* lemma into the morpheme before it.
C1_Witness ==
    /\ pc = "parse_noun"
    /\ search_absolutive(word).found # None
    /\ Len(ret.morphemes) < Len(parse_noun_raw(word).morphemes)

\* C2 as stated: parse_verb("nikochi") is (["ni", "kochi"], "kochi").
C2_Original ==
    (pc = "parse_verb" /\ word = W_nikochi)
        => ret = [morphemes |-> <<W_ni, W_kochi>>, lemma |-> W_kochi]

\* C2 amended: parse_verb("nikochi") is (["ni", "k", "ochi"], "ochi"): the
\* subject tier strips "ni" and the object tier strips "k".
C2_Amended ==
    (pc = "parse_verb" /\ word = W_nikochi)
        => ret = [morphemes |-> <<W_ni, W_k, W_ochi>>, lemma |-> W_ochi]

C2_Witness == pc = "parse_verb" /\ word = W_nikochi /\ Len(ret.morphemes) = 3

C3_Case ==
    /\ pc = "is_verb_rb"
    /\ word = W_nikochi
    /\ verb_list = {W_kochi}
    /\ non_verb_list = {}

\* C3 as stated: is_verb_rb("nikochi", {"kochi"}, {}) returns True by rule 1.
C3_Original == C3_Case => (ret.result = "True" /\ ret.rule = 1)

\* C3 amended: is_verb_rb("nikochi", {"kochi"}, {}) returns True by rule 2 (a
\* subject prefix followed by a personal object prefix); rule 1 does not fire,
\* the verb lemma being "ochi".
C3_Amended ==
    C3_Case => /\ ret.result = "True"
               /\ ret.rule = 2
               /\ parse_verb(word).lemma = W_ochi
               /\ W_ochi \notin verb_list

C3_Witness == C3_Case /\ ret.result = "True"

C4_Case ==
    /\ pc = "is_verb_rb"
    /\ search_absolutive(word).found # None
    /\ verb_list = {}
    /\ non_verb_list = {}

\* the word has a subject prefix and, after it, an object prefix other than
\* 'te' and 'La' (rule 2), or starts with 'kii' (rule 3)
C4_EarlierVerbRule ==
    \/ /\ \E i \in 1..Len(SUBJECT_PREFIXES_V) : startswith(word, SUBJECT_PREFIXES_V[i])
       /\ LET rest == search_prefix(word, SUBJECT_PREFIXES_V).word
          IN \E i \in 1..Len(OBJECT_PREFIXES_V) :
                /\ OBJECT_PREFIXES_V[i] \notin {<<"t","e">>, <<"L","a">>}
                /\ startswith(rest, OBJECT_PREFIXES_V[i])
    \/ startswith(word, <<"k","i","i">>)

\* C4 as stated: with both word lists empty, every word the absolutive probe
\* finds a suffix on is classified False (Noun) by rule 4.
C4_Original == C4_Case => (ret.result = "False" /\ ret.rule = 4)

\* C4 amended: ... every such word on which neither rule 2 nor rule 3 fires is
\* classified False (Noun) by rule 4.
C4_Amended == (C4_Case /\ ~C4_EarlierVerbRule) => (ret.result = "False" /\ ret.rule = 4)

C4_Witness == C4_Case /\ ~C4_EarlierVerbRule /\ ret.rule = 4

\* C5: one call merges the lemma into its predecessor at most once:
\* parse_verb("nikkwa") is (["ni", "kkwa"], "kkwa"), and no call returns fewer
\* morphemes than segmentation produced less one.
C5_RepairOnce ==
    /\ (pc = "parse_verb" /\ word = W_nikkwa)
           => ret = [morphemes |-> <<W_ni, W_kkwa>>, lemma |-> W_kkwa]
    /\ Parsed => Len(ret.morphemes) >= Len(RawOfCall.morphemes) - 1

\* C5 witness: the merged lemma is itself illegal and has a predecessor.
C5_Witness ==
    /\ pc = "parse_verb"
    /\ word = W_nikkwa
    /\ Len(ret.morphemes) = Len(RawOfCall.morphemes) - 1
    /\ IllegalStart(ret.lemma)
    /\ index(ret.morphemes, ret.lemma) > 0

\* what the directional tier of parse_verb's prefix loop strips from w
DirectionalStripped(w) ==
    search_prefix(StripPrefixes(w, SubSeq(VerbPrefixTiers, 1, 5), 1, <<>>).word,
                  DIRECTIONAL_PREFIXES_V).found

\* C10 as stated: Verb(w).direction is 'towards' when parse_verb(w) strips
\* "wal", 'away' when it strips "on", None when it strips neither.
C10_Original ==
    pc = "Verb" =>
        /\ ret.raised = "None"
        /\ ret.direction = CASE DirectionalStripped(word) = <<"w","a","l">> -> "towards"
                             [] DirectionalStripped(word) = <<"o","n">> -> "away"
                             [] OTHER -> "None"

---------------------------------------------------------------------------
(* The claims about tokenize_text, checked under TokSpec *)

\* tokenize_text has returned or raised
TokEnded == pc \in {"tok_done", "tok_raised"}

\* C6 as stated: tokenize_text returns, with one morpheme list per token of
\* the converted text, in order, the i-th list concatenating to the i-th token.
C6_Original ==
    TokEnded =>
        /\ pc = "tok_done"
        /\ Len(ret.result) = Len(text)
        /\ \A i \in 1..Len(text) : Concat(ret.result[i]) = text[i]

\* C7: in one run is_verb_rb is called at most once per surface form and
\* parse_verb / parse_noun at most once per surface form, and in the output the
\* occurrences of one token carry one morpheme sequence.
C7_AtMostOnce ==
    /\ \A w \in DOMAIN calls : calls[w].classify <= 1 /\ calls[w].segment <= 1
    /\ pc = "tok_done" =>
          \A i, j \in 1..Len(text) : text[i] = text[j] => ret.result[i] = ret.result[j]

\* C7 witness: a form that occurs twice in the text has been classified, and
\* its segmentation called, once.
C7_Witness ==
    \E i, j \in 1..Len(text) :
        /\ i # j
        /\ text[i] = text[j]
        /\ text[i] \in DOMAIN calls
        /\ calls[text[i]].classify = 1
        /\ calls[text[i]].segment = 1

\* C8 as stated: with both compound checks off, a token in no word list that
\* is_verb_rb returns None for comes out as the non-empty morphemes of
\* parse_noun.
C8_Original ==
    (TokEnded /\ ~args.noun_compound_check /\ ~args.verb_compound_check) =>
        \A i \in 1..Len(text) :
            (/\ Unlisted(args, text[i])
             /\ is_verb_rb(text[i], Elements(args.verb_lemmas),
                           Elements(args.noun_lemmas)).result = "None")
                => /\ pc = "tok_done"
                   /\ ret.result[i] = remove_empty(parse_noun(text[i]).morphemes)

---------------------------------------------------------------------------
(* The claim about Orthography.convert, checked under OrthoSpec *)

\* C9 as stated: convert(convert(t)) = convert(t), for both orthographies.
C9_Original == pc = "ortho_twice" => ret.twice = ret.once

---------------------------------------------------------------------------
(* The claims about the repair and the rule cascade, checked under Spec *)

\* the lemma the repair is described for: non-empty, starting with a
\* non-vowel that is its only character or is followed by a non-vowel
TwoNonVowels(lemma) ==
    /\ Len(lemma) > 0
    /\ lemma[1] \notin VOWELS
    /\ (Len(lemma) = 1 \/ lemma[2] \notin VOWELS)

\* C11 as stated: the repair changes the morphemes or the lemma only when the
\* lemma is non-empty, starts with two non-vowels (or is one non-vowel) and is
\* not the first morpheme; otherwise, an empty lemma included, both come back
\* as they went in.
C11_Original ==
    (Parsed /\ ret # RawOfCall) =>
        /\ TwoNonVowels(RawOfCall.lemma)
        /\ index(RawOfCall.morphemes, RawOfCall.lemma) # 0

\* the rule context of the word is_verb_rb was called on
Ctx == RuleContext(word)

\* none of the rules 1 to k fires on the call that ran
NoRuleUpTo(k) == \A r \in 1..k : ~RuleFires(r, word, Ctx, verb_list, non_verb_list)

\* parse_verb stripped the number suffix "j", and a plural subject prefix
\* stands before the verb lemma
PluralVerbShape ==
    /\ Len(Ctx.from_v) >= 2
    /\ Ctx.verb_morphemes[Len(Ctx.verb_morphemes)] = <<"j">>
    /\ AnyIn(PLURAL_VERB_PREFIXES, Ctx.before_v)

\* C12 as stated: a word that rules 1 to 4 pass over, whose verb segmentation
\* ends in the number suffix "j" and has "ti", "in" or "an" before the lemma,
\* is classified Verb.
C12_Original ==
    (pc = "is_verb_rb" /\ NoRuleUpTo(4) /\ PluralVerbShape) => ret.result = "True"

---------------------------------------------------------------------------
(* The claim about parse_noun's suffix tiers, checked under Spec *)

\* the prefix tiers parse_noun strips when there is no absolutive
NounPrefixTiers == <<SUBJECT_PREFIXES_V, GENITIVE_PREFIXES_N, DIMINUTIVE_PREFIXES_N>>

\* what is left of the word once parse_noun's prefix tiers are stripped
NounRemainder == StripPrefixes(word, NounPrefixTiers, 1, <<>>).word

\* the segmentation parse_noun made has a genitive prefix before the lemma
GenitivePrefixParsed ==
    LET raw == parse_noun_raw(word)
    IN AnyIn(GENITIVE_PREFIXES_N, SubSeq(raw.morphemes, 1, index(raw.morphemes, raw.lemma)))

\* the segmentation parse_noun made has a genitive suffix from the lemma on
GenitiveSuffixParsed ==
    LET raw == parse_noun_raw(word)
    IN AnyIn(GENITIVE_SUFFIXES_N,
             SubSeq(raw.morphemes, index(raw.morphemes, raw.lemma) + 1, Len(raw.morphemes)))

\* C13 as stated: on a word without absolutive suffix parse_noun searches the
\* genitive suffixes exactly when its segmentation has a genitive prefix
\* before the lemma (the plural suffixes exactly when it has none), so a
\* remainder ending in wan, wa or yo loses that suffix whenever a genitive
\* prefix was stripped, a subject prefix before it or not.
C13_Original ==
    (pc = "parse_noun" /\ search_absolutive(word).found = None) =>
        /\ InList(GENITIVE_SUFFIXES_N, NounSuffixTiers(word)) <=> GenitivePrefixParsed
        /\ InList(PLURAL_SUFFIXES_N, NounSuffixTiers(word)) <=> ~GenitivePrefixParsed
        /\ (GenitivePrefixParsed
              /\ \E i \in 1..Len(GENITIVE_SUFFIXES_N) : endswith(NounRemainder, GENITIVE_SUFFIXES_N[i]))
             => GenitiveSuffixParsed

---------------------------------------------------------------------------
(* The claim about the compound checks, checked under TokSpec *)

\* what line 86 is to produce for token w: parse_verb for a word classified
\* True, parse_noun otherwise
SegmentationOf(a, w) ==
    IF is_verb_rb(w, Elements(a.verb_lemmas), Elements(a.noun_lemmas)).result = "True"
    THEN parse_verb(w) ELSE parse_noun(w)

\* C14 as stated: with a compound check on, a word whose segmented lemma is in
\* basic, noun_lemmas or verb_lemmas comes out with the morphemes segmentation
\* gave it: neither check splices or merges it.
C14_Original ==
    (TokEnded /\ (args.noun_compound_check \/ args.verb_compound_check)) =>
        \A i \in 1..Len(text) :
            (/\ Unlisted(args, text[i])
             /\ SegmentationOf(args, text[i]).lemma \in AllLemmas(args))
                => /\ pc = "tok_done"
                   /\ ret.result[i] = remove_empty(SegmentationOf(args, text[i]).morphemes)

---------------------------------------------------------------------------
(* The claim about the cursor of Verb, checked under Spec *)

\* C15 as stated: Verb(word) completes without an exception for every word,
\* the empty word and "o" included: each of search_plural, get_negative,
\* get_past_prefix, get_subject_person, get_reflexive, get_object and
\* get_direction reads a valid position of self.morphemes.
C15_Original == pc = "Verb" => ret.raised = "None"

=============================================================================
